---------------------------- MODULE Spec2Model ----------------------------
(***************************************************************************)
(* rust-trees: a red-black tree map (src/src/rb.rs over the generic Node   *)
(* of src/src/lib.rs) and an AVL tree set (src/src/avl.rs).                *)
(*                                                                         *)
(* An Option<T> is a sequence of length 0 (None) or 1 (Some(x)).  A boxed  *)
(* node is a record with the fields of the Rust struct.  A function that   *)
(* takes `&mut self` is an operator from the node before the call to the   *)
(* node after it.  `unwrap()` of None yields PanicNode (AVLPanicNode),     *)
(* which every operator hands on unchanged, so a panic anywhere inside an  *)
(* operation surfaces at the operation's top level.                        *)
(***************************************************************************)
EXTENDS Integers, Sequences, FiniteSets, TLC

\* Keys are 1..MaxKey.
MaxKey == 6

Keys == 1..MaxKey

\* Payloads of the red-black map: a key is stored with itself as its value
\* (as the tests and the benchmark do), and key Rewritten also with 0.
Rewritten == 3

Values(key) == IF key = Rewritten THEN {key, 0} ELSE {key}

\* Which tree the program constructed.
Kinds == {"RedBlack", "AVL"}

None == <<>>

Some(x) == <<x>>

\* lib.rs Side::other
Other(side) == IF side = "Left" THEN "Right" ELSE "Left"

-----------------------------------------------------------------------------
(* lib.rs: Node<K, V, M> with M = Color                                    *)

PanicNode ==
    [key |-> 0, value |-> 0, left_child |-> None, right_child |-> None,
     metadata |-> "Panic"]

IsPanic(n) == n.metadata = "Panic"

\* Option::unwrap on a Child
unwrap(c) == IF c = None THEN PanicNode ELSE c[1]

\* rb.rs new_node
new_node(key, value, color) ==
    Some([key |-> key, value |-> value, left_child |-> None,
          right_child |-> None, metadata |-> color])

\* rb.rs Node::child
child(self, child_side) ==
    IF child_side = "Left" THEN self.left_child ELSE self.right_child

\* rb.rs Node::another_child
another_child(self, child_side) == child(self, Other(child_side))

\* assignment through the `&mut Child` that child() returns
SetChild(self, child_side, c) ==
    IF IsPanic(self) THEN PanicNode
    ELSE IF c # None /\ IsPanic(c[1]) THEN PanicNode
    ELSE IF child_side = "Left" THEN [self EXCEPT !.left_child = c]
    ELSE [self EXCEPT !.right_child = c]

\* assignment to `metadata`
SetMeta(self, color) ==
    IF IsPanic(self) THEN PanicNode ELSE [self EXCEPT !.metadata = color]

\* rb.rs Node::is_red
is_red(node) == node # None /\ node[1].metadata = "Red"

\* rb.rs Node::is_black
is_black(node) == ~is_red(node)

\* rotate_left reassigning Y instead of Z: b keeps nothing on its right and
\* a takes b's right subtree
rb_rotate_left_takes_right(self) ==
    LET new_self == unwrap(self.right_child)
    IN  IF IsPanic(self) \/ IsPanic(new_self) THEN PanicNode
        ELSE [new_self EXCEPT
                 !.right_child = None,
                 !.left_child =
                     Some([self EXCEPT !.right_child = new_self.right_child])]

\* rb.rs Node::rotate_left
rb_rotate_left(self) ==
    LET new_self == unwrap(self.right_child)
    IN  IF IsPanic(self) \/ IsPanic(new_self) THEN PanicNode
        ELSE [new_self EXCEPT !.left_child =
                 Some([self EXCEPT !.right_child = new_self.left_child])]

\* rb.rs Node::rotate_right
rb_rotate_right(self) ==
    LET new_self == unwrap(self.left_child)
    IN  IF IsPanic(self) \/ IsPanic(new_self) THEN PanicNode
        ELSE [new_self EXCEPT !.right_child =
                 Some([self EXCEPT !.left_child = new_self.right_child])]

\* rb.rs Node::rotate_from
rotate_from(self, side) ==
    IF side = "Left" THEN rb_rotate_right(self) ELSE rb_rotate_left(self)

\* rb.rs Node::rotate_to
rotate_to(self, side) ==
    IF side = "Left" THEN rb_rotate_left(self) ELSE rb_rotate_right(self)

\* rb.rs Node::resolve_rotation
resolve_rotation(self, child_color, child_side) ==
    IF child_color = "Red" /\ self.metadata = "Red" THEN Some(child_side)
    ELSE None

\* rb.rs Node::rotate
rotate(self, child_side, grandchild_side) ==
    LET s1 == IF grandchild_side # child_side
              THEN SetChild(self, child_side,
                       Some(rotate_from(unwrap(child(self, child_side)),
                                        grandchild_side)))
              ELSE self
        s2 == SetChild(s1, child_side,
                  Some(SetMeta(unwrap(child(s1, child_side)), "Black")))
        s3 == SetMeta(s2, "Red")
    IN  rotate_from(s3, child_side)

\* the fixup recolouring self whether or not a rotation was asked for
handle_insert_rotation_always_recolours(self, rotation, child_side) ==
    [node |-> SetMeta(self, "Red"), rotation |-> None]

\* rb.rs Node::handle_insert_rotation; the result is the node afterwards and
\* the InsertRotation it returns
handle_insert_rotation(self, rotation, child_side) ==
    IF IsPanic(self) THEN [node |-> PanicNode, rotation |-> None]
    ELSE IF rotation # None THEN
        LET grand_child_side == rotation[1]
            sibling == another_child(self, child_side)
        IN  IF sibling # None THEN
                IF sibling[1].metadata = "Red" THEN
                    LET s1 == SetChild(self, Other(child_side),
                                  Some(SetMeta(sibling[1], "Black")))
                        s2 == IF child(s1, child_side) # None
                              THEN SetChild(s1, child_side,
                                       Some(SetMeta(child(s1, child_side)[1],
                                                    "Black")))
                              ELSE s1
                        s3 == SetMeta(s2, "Red")
                    IN  [node |-> s3,
                         rotation |-> resolve_rotation(s3, "Red", child_side)]
                ELSE [node |-> rotate(self, child_side, grand_child_side),
                      rotation |-> None]
            ELSE [node |-> rotate(self, child_side, grand_child_side),
                  rotation |-> None]
    ELSE [node |-> self, rotation |-> None]

RECURSIVE insert_recursively(_, _, _)
\* rb.rs Node::insert_recursively
insert_recursively(self, key, value) ==
    IF key = self.key THEN
        [node |-> [self EXCEPT !.key = key, !.value = value],
         rotation |-> None]
    ELSE
        LET side == IF key < self.key THEN "Left" ELSE "Right"
            Linked(s) ==
                [node |-> s, rotation |-> resolve_rotation(s, "Red", side)]
            Inserted(r) ==
                handle_insert_rotation(SetChild(self, side, Some(r.node)),
                                       r.rotation, side)
        IN  IF child(self, side) = None
            THEN Linked(SetChild(self, side, new_node(key, value, "Red")))
            ELSE Inserted(insert_recursively(child(self, side)[1], key, value))

\* Node::insert leaving the root the colour the fixup gave it
rb_node_insert_keeps_colour(self, key, value) ==
    insert_recursively(self, key, value).node

\* rb.rs Node::insert
rb_node_insert(self, key, value) ==
    SetMeta(insert_recursively(self, key, value).node, "Black")

\* rb.rs RedBlack::insert
rb_insert(root, key, value) ==
    IF root = None THEN new_node(key, value, "Black")
    ELSE Some(rb_node_insert(root[1], key, value))


\* balance_red_node leaving the sibling Black
balance_red_node_keeps_sibling(self, changed_child_side) ==
    SetMeta(self, "Black")

\* rb.rs Node::balance_red_node
balance_red_node(self, changed_child_side) ==
    LET s1 == SetMeta(self, "Black")
    IN  SetChild(s1, Other(changed_child_side),
            Some(SetMeta(unwrap(child(s1, Other(changed_child_side))), "Red")))

\* rb.rs Node::balance_other_side_nephew_is_red
balance_other_side_nephew_is_red(self, side) ==
    LET PaintNephew(s) ==
            SetChild(s, Other(side),
                Some(SetMeta(unwrap(child(s, Other(side))), "Black")))
    IN  IF IsPanic(self) THEN PanicNode
        ELSE PaintNephew(SetMeta(rotate_to(SetMeta(self, "Black"), side),
                                 self.metadata))

\* rb.rs Node::balance_same_side_nephew_is_red
balance_same_side_nephew_is_red(self, side) ==
    LET sibling == unwrap(child(self, Other(side)))
        sib1 == SetMeta(sibling, "Red")
        sib2 == rotate_to(sib1, Other(side))
        sib3 == SetMeta(sib2, "Black")
    IN  balance_other_side_nephew_is_red(
            SetChild(self, Other(side), Some(sib3)), side)

\* rb.rs Node::balance_red_sibling
balance_red_sibling(self, changed_child_side) ==
    LET Balance(previous_self, sibling) ==
            IF IsPanic(sibling) THEN PanicNode
            ELSE IF is_red(child(sibling, Other(changed_child_side)))
            THEN balance_other_side_nephew_is_red(previous_self,
                                                  changed_child_side)
            ELSE IF is_red(child(sibling, changed_child_side))
            THEN balance_same_side_nephew_is_red(previous_self,
                                                 changed_child_side)
            ELSE balance_red_node(previous_self, changed_child_side)
        BalancePrevious(previous_self) ==
            Balance(previous_self,
                    unwrap(child(previous_self, Other(changed_child_side))))
        Rotated(s) ==
            SetChild(s, changed_child_side,
                Some(BalancePrevious(
                    SetMeta(unwrap(child(s, changed_child_side)), "Red"))))
    IN  Rotated(SetMeta(rotate_to(self, changed_child_side), "Black"))

\* rb.rs Node::check_imbalance_after_delete; the result is the node afterwards
\* and the bool it returns
check_imbalance_after_delete(self, changed_child_side) ==
    LET is_red_self == self.metadata = "Red"
        Check(sibling) ==
            IF IsPanic(self) \/ IsPanic(sibling)
            THEN [node |-> PanicNode, check |-> FALSE]
            ELSE IF sibling.metadata = "Red"
            THEN [node |-> balance_red_sibling(self, changed_child_side),
                  check |-> FALSE]
            ELSE
                LET same_side_nephew_is_red ==
                        ~is_black(child(sibling, changed_child_side))
                    other_side_nephew_is_red ==
                        ~is_black(another_child(sibling, changed_child_side))
                IN  IF other_side_nephew_is_red
                    THEN [node |-> balance_other_side_nephew_is_red(
                                       self, changed_child_side),
                          check |-> FALSE]
                    ELSE IF same_side_nephew_is_red
                    THEN [node |-> balance_same_side_nephew_is_red(
                                       self, changed_child_side),
                          check |-> FALSE]
                    ELSE IF is_red_self
                    THEN [node |-> balance_red_node(self, changed_child_side),
                          check |-> FALSE]
                    ELSE [node |-> SetChild(self, Other(changed_child_side),
                                       Some(SetMeta(sibling, "Red"))),
                          check |-> TRUE]
    IN  Check(unwrap(another_child(self, changed_child_side)))

\* the `if check_needed { check_needed = self.check_imbalance_after_delete(side) }`
\* that follows every recursive removal
CheckIfNeeded(self, check_needed, side) ==
    IF check_needed THEN check_imbalance_after_delete(self, side)
    ELSE [node |-> self, check |-> FALSE]

\* rb.rs Node::pop_smallest_node, leaf arm: the check_needed it returns for a
\* node without children
pop_leaf_check_needed(node) == node.metadata = "Black"

RECURSIVE pop_smallest_node(_)
\* rb.rs Node::pop_smallest_node; the result is (tree, popped, check_needed)
pop_smallest_node(node) ==
    LET Checked(p, c) ==
            [tree |-> Some(c.node), popped |-> p.popped, check |-> c.check]
        Popped(p) ==
            Checked(p, CheckIfNeeded(SetChild(node, "Left", p.tree),
                                     p.check, "Left"))
    IN  IF IsPanic(node)
        THEN [tree |-> Some(PanicNode), popped |-> PanicNode, check |-> FALSE]
        ELSE IF node.left_child = None THEN
            IF node.right_child = None
            THEN [tree |-> None, popped |-> node,
                  check |-> pop_leaf_check_needed(node)]
            ELSE [tree |-> Some(SetMeta(node.right_child[1], "Black")),
                  popped |-> [node EXCEPT !.right_child = None],
                  check |-> FALSE]
        ELSE Popped(pop_smallest_node(node.left_child[1]))

\* rb.rs Node::remove_recursively, Equal arm with two children
remove_two_children(self) ==
    LET Checked(replacement, c) ==
            [node |-> Some(c.node),
             removed |-> Some(<<replacement.key, replacement.value>>),
             check |-> c.check]
        Swapped(p, swapped) ==
            Checked([p.popped EXCEPT !.key = self.key, !.value = self.value],
                    CheckIfNeeded(SetChild(swapped, "Right", p.tree),
                                  p.check, "Right"))
        Popped(p) ==
            Swapped(p, [self EXCEPT !.key = p.popped.key,
                                    !.value = p.popped.value])
    IN  Popped(pop_smallest_node(unwrap(self.right_child)))

\* the one-child splice dropping the child with the node
remove_one_child_drops_child(self, side) ==
    [node |-> None,
     removed |-> Some(<<self.key, self.value>>),
     check |-> FALSE]

\* rb.rs Node::remove_recursively, Equal arm with one child on `side`
remove_one_child(self, side) ==
    [node |-> Some(SetMeta(child(self, side)[1], "Black")),
     removed |-> Some(<<self.key, self.value>>),
     check |-> FALSE]

\* the leaf removal that never asks for a check
remove_leaf_never_checks(self) ==
    [node |-> None,
     removed |-> Some(<<self.key, self.value>>),
     check |-> FALSE]

\* rb.rs Node::remove_recursively, Equal arm without children
remove_leaf(self) ==
    [node |-> None,
     removed |-> Some(<<self.key, self.value>>),
     check |-> self.metadata = "Black"]

RECURSIVE remove_recursively(_, _)
\* rb.rs Node::remove_recursively; the result is (node, removed, check_needed)
remove_recursively(self, key) ==
    IF key = self.key THEN
        LET has_left_child == self.left_child # None
            has_right_child == self.right_child # None
        IN  IF has_right_child /\ has_left_child THEN remove_two_children(self)
            ELSE IF has_right_child THEN remove_one_child(self, "Right")
            ELSE IF has_left_child THEN remove_one_child(self, "Left")
            ELSE remove_leaf(self)
    ELSE
        LET side == IF key > self.key THEN "Right" ELSE "Left"
            Checked(r, c) ==
                [node |-> Some(c.node), removed |-> r.removed,
                 check |-> c.check]
            Relinked(r) ==
                Checked(r, CheckIfNeeded(SetChild(self, side, r.node),
                                         r.check, side))
        IN  IF child(self, side) # None
            THEN Relinked(remove_recursively(child(self, side)[1], key))
            ELSE [node |-> Some(self), removed |-> None, check |-> FALSE]

\* rb.rs Node::remove; the result is (node, removed)
rb_node_remove(self, value) ==
    LET Blacken(r) ==
            [node |-> IF r.node # None THEN Some(SetMeta(r.node[1], "Black"))
                      ELSE None,
             removed |-> r.removed]
    IN  Blacken(remove_recursively(self, value))

\* rb.rs RedBlack::remove; the result is the root afterwards and the value
\* returned
rb_remove(root, value) ==
    IF root = None THEN [node |-> None, removed |-> None]
    ELSE rb_node_remove(root[1], value)

-----------------------------------------------------------------------------
(* lib.rs: the operations of Node that do not change the tree              *)

RECURSIVE node_find(_, _)
\* lib.rs Node::find
node_find(root, key) ==
    IF key < root.key THEN
        IF root.left_child = None THEN None
        ELSE node_find(root.left_child[1], key)
    ELSE IF key > root.key THEN
        IF root.right_child = None THEN None
        ELSE node_find(root.right_child[1], key)
    ELSE Some(root.value)

RECURSIVE node_min(_)
\* lib.rs Node::min
node_min(min) ==
    IF min.right_child # None THEN node_min(min.right_child[1])
    ELSE <<min.key, min.value>>

RECURSIVE node_max_descends_left(_)
\* max descending to the left, as min would
node_max_descends_left(max) ==
    IF max.left_child # None THEN node_max_descends_left(max.left_child[1])
    ELSE <<max.key, max.value>>

RECURSIVE node_max(_)
\* lib.rs Node::max
node_max(max) ==
    IF max.right_child # None THEN node_max(max.right_child[1])
    ELSE <<max.key, max.value>>

\* the closure forgetting the candidate
KeyValueOf_forgets(last_greater) == None

\* lib.rs Node::next, the closure applied to last_greater
KeyValueOf(last_greater) ==
    IF last_greater = None THEN None
    ELSE Some(<<last_greater[1].key, last_greater[1].value>>)

RECURSIVE node_next_loop(_, _, _)
\* lib.rs Node::next, the loop from (root, last_greater)
node_next_loop(root, key, last_greater) ==
    IF key < root.key THEN
        IF root.left_child = None THEN KeyValueOf(Some(root))
        ELSE node_next_loop(root.left_child[1], key, Some(root))
    ELSE IF key > root.key THEN
        IF root.right_child = None THEN None
        ELSE node_next_loop(root.right_child[1], key, last_greater)
    ELSE
        IF root.right_child = None THEN KeyValueOf(last_greater)
        ELSE Some(node_min(root.right_child[1]))

\* lib.rs Node::next
node_next(self, key) == node_next_loop(self, key, None)

\* lib.rs Tree::find
tree_find(root, value) ==
    IF root = None THEN None ELSE node_find(root[1], value)

\* lib.rs Tree::min
tree_min(root) == IF root = None THEN None ELSE Some(node_min(root[1]))

\* lib.rs Tree::max
tree_max(root) == IF root = None THEN None ELSE Some(node_max(root[1]))

\* lib.rs Tree::next
tree_next(root, value) ==
    IF root = None THEN None ELSE node_next(root[1], value)

-----------------------------------------------------------------------------
(* avl.rs: AVLNode<T>                                                      *)

AVLPanicNode ==
    [value |-> 0, left_child |-> None, right_child |-> None,
     balance_factor |-> 1000]

AVLIsPanic(n) == n.balance_factor = 1000

\* Option::unwrap on an AVLTree
avl_unwrap(c) == IF c = None THEN AVLPanicNode ELSE c[1]

\* avl.rs new_node
avl_new_node(value) ==
    Some([value |-> value, left_child |-> None, right_child |-> None,
          balance_factor |-> 0])

\* avl.rs abs
abs(value) == IF value < -value THEN -value ELSE value

RECURSIVE avl_node_find(_, _)
\* avl.rs AVLNode::find
avl_node_find(root, value) ==
    IF value < root.value THEN
        IF root.left_child = None THEN None
        ELSE avl_node_find(root.left_child[1], value)
    ELSE IF value > root.value THEN
        IF root.right_child = None THEN None
        ELSE avl_node_find(root.right_child[1], value)
    ELSE Some(root.value)

RECURSIVE avl_node_min(_)
\* avl.rs AVLNode::min
avl_node_min(min) ==
    IF min.right_child # None THEN avl_node_min(min.right_child[1])
    ELSE min.value

RECURSIVE avl_node_max(_)
\* avl.rs AVLNode::max
avl_node_max(max) ==
    IF max.right_child # None THEN avl_node_max(max.right_child[1])
    ELSE max.value

RECURSIVE avl_node_next_loop(_, _, _)
\* avl.rs AVLNode::next, the loop from (root, last_greater)
avl_node_next_loop(root, value, last_greater) ==
    IF value < root.value THEN
        IF root.left_child = None THEN Some(root.value)
        ELSE avl_node_next_loop(root.left_child[1], value, Some(root))
    ELSE IF value > root.value THEN
        IF root.right_child = None THEN None
        ELSE avl_node_next_loop(root.right_child[1], value, last_greater)
    ELSE
        IF root.right_child = None
        THEN IF last_greater = None THEN None
             ELSE Some(last_greater[1].value)
        ELSE Some(avl_node_max(root.right_child[1]))

\* avl.rs AVLNode::next
avl_node_next(self, value) == avl_node_next_loop(self, value, None)

\* avl.rs AVL::find
avl_find(root, value) ==
    IF root = None THEN None ELSE avl_node_find(root[1], value)

\* avl.rs AVL::min
avl_min(root) == IF root = None THEN None ELSE Some(avl_node_min(root[1]))

\* avl.rs AVL::max
avl_max(root) == IF root = None THEN None ELSE Some(avl_node_max(root[1]))

\* avl.rs AVL::next
avl_next(root, value) ==
    IF root = None THEN None ELSE avl_node_next(root[1], value)

\* assignment to a child of an AVLNode
AVLSetChild(self, side, c) ==
    IF AVLIsPanic(self) THEN AVLPanicNode
    ELSE IF c # None /\ AVLIsPanic(c[1]) THEN AVLPanicNode
    ELSE IF side = "Left" THEN [self EXCEPT !.left_child = c]
    ELSE [self EXCEPT !.right_child = c]

\* the child of an AVLNode on `side` (avl.rs Side)
avl_child(self, side) ==
    IF side = "Left" THEN self.left_child ELSE self.right_child

\* avl.rs AVLNode::rotate_right_left
rotate_right_left(self) ==
    LET right == avl_unwrap(self.right_child)
        new_root == avl_unwrap(right.left_child)
        b == [right EXCEPT !.left_child = new_root.right_child]
        a == [self EXCEPT !.right_child = new_root.left_child]
        left_child_balance_factor ==
            IF new_root.balance_factor = 1 THEN -1 ELSE 0
        right_child_balance_factor ==
            IF new_root.balance_factor = 1 THEN 0
            ELSE IF new_root.balance_factor = -1 THEN 1 ELSE 0
    IN  IF AVLIsPanic(self) \/ AVLIsPanic(right) \/ AVLIsPanic(new_root)
        THEN AVLPanicNode
        ELSE [new_root EXCEPT
                 !.left_child =
                     Some([a EXCEPT !.balance_factor = left_child_balance_factor]),
                 !.right_child =
                     Some([b EXCEPT !.balance_factor = right_child_balance_factor]),
                 !.balance_factor = 0]

\* rotate_left_right putting a on the left and b on the right
rotate_left_right_swaps_children(self) ==
    LET left == avl_unwrap(self.left_child)
        new_root == avl_unwrap(left.right_child)
        a == [self EXCEPT !.left_child = new_root.right_child]
        b == [left EXCEPT !.right_child = new_root.left_child]
    IN  IF AVLIsPanic(self) \/ AVLIsPanic(left) \/ AVLIsPanic(new_root)
        THEN AVLPanicNode
        ELSE [new_root EXCEPT
                 !.left_child = Some([a EXCEPT !.balance_factor = 0]),
                 !.right_child = Some([b EXCEPT !.balance_factor = 0]),
                 !.balance_factor = 0]

\* avl.rs AVLNode::rotate_left_right
rotate_left_right(self) ==
    LET left == avl_unwrap(self.left_child)
        new_root == avl_unwrap(left.right_child)
        a == [self EXCEPT !.left_child = new_root.right_child]
        b == [left EXCEPT !.right_child = new_root.left_child]
        left_child_balance_factor ==
            IF new_root.balance_factor = 1 THEN -1 ELSE 0
        right_child_balance_factor ==
            IF new_root.balance_factor = 1 THEN 0
            ELSE IF new_root.balance_factor = -1 THEN 1 ELSE 0
    IN  IF AVLIsPanic(self) \/ AVLIsPanic(left) \/ AVLIsPanic(new_root)
        THEN AVLPanicNode
        ELSE [new_root EXCEPT
                 !.right_child =
                     Some([a EXCEPT !.balance_factor = right_child_balance_factor]),
                 !.left_child =
                     Some([b EXCEPT !.balance_factor = left_child_balance_factor]),
                 !.balance_factor = 0]

\* rotate_left leaving the balance factors as they were
avl_rotate_left_keeps_factors(self) ==
    LET new_root == avl_unwrap(self.right_child)
        a == [self EXCEPT !.right_child = new_root.left_child]
    IN  IF AVLIsPanic(self) \/ AVLIsPanic(new_root) THEN AVLPanicNode
        ELSE [new_root EXCEPT !.left_child = Some(a)]

\* rotate_left without the case of a balanced right child: both factors
\* become 0
avl_rotate_left_always_balanced(self) ==
    LET new_root == avl_unwrap(self.right_child)
        a == [self EXCEPT !.right_child = new_root.left_child]
    IN  IF AVLIsPanic(self) \/ AVLIsPanic(new_root) THEN AVLPanicNode
        ELSE [new_root EXCEPT
                 !.balance_factor = 0,
                 !.left_child = Some([a EXCEPT !.balance_factor = 0])]

\* avl.rs AVLNode::rotate_left
avl_rotate_left(self) ==
    LET new_root == avl_unwrap(self.right_child)
        a == [self EXCEPT !.right_child = new_root.left_child]
    IN  IF AVLIsPanic(self) \/ AVLIsPanic(new_root) THEN AVLPanicNode
        ELSE IF new_root.balance_factor = 0
        THEN [new_root EXCEPT
                 !.balance_factor = -1,
                 !.left_child = Some([a EXCEPT !.balance_factor = 1])]
        ELSE [new_root EXCEPT
                 !.balance_factor = 0,
                 !.left_child = Some([a EXCEPT !.balance_factor = 0])]

\* avl.rs AVLNode::rotate_right
avl_rotate_right(self) ==
    LET new_root == avl_unwrap(self.left_child)
        a == [self EXCEPT !.left_child = new_root.right_child]
    IN  IF AVLIsPanic(self) \/ AVLIsPanic(new_root) THEN AVLPanicNode
        ELSE IF new_root.balance_factor = 0
        THEN [new_root EXCEPT
                 !.balance_factor = 1,
                 !.right_child = Some([a EXCEPT !.balance_factor = -1])]
        ELSE [new_root EXCEPT
                 !.balance_factor = 0,
                 !.right_child = Some([a EXCEPT !.balance_factor = 0])]

\* balance taking the double rotation whatever the child's balance factor is
balance_always_double(self) ==
    IF AVLIsPanic(self) THEN AVLPanicNode
    ELSE IF self.balance_factor = -2 THEN rotate_left_right(self)
    ELSE IF self.balance_factor = 2 THEN rotate_right_left(self)
    ELSE AVLPanicNode

\* avl.rs AVLNode::balance; unreachable!() panics
balance(self) ==
    IF AVLIsPanic(self) THEN AVLPanicNode
    ELSE IF self.balance_factor = -2 THEN
        IF self.left_child = None THEN AVLPanicNode
        ELSE IF self.left_child[1].balance_factor <= 0
        THEN avl_rotate_right(self)
        ELSE rotate_left_right(self)
    ELSE IF self.balance_factor = 2 THEN
        IF self.right_child = None THEN AVLPanicNode
        ELSE IF self.right_child[1].balance_factor >= 0
        THEN avl_rotate_left(self)
        ELSE rotate_right_left(self)
    ELSE AVLPanicNode

\* handle_child_change passing a height increase on after it has rebalanced
handle_child_change_passes_increase(self, affected_child_change, affected_child_side) ==
    LET delta == IF affected_child_change = "Increased"
                 THEN (IF affected_child_side = "Left" THEN -1 ELSE 1)
                 ELSE (IF affected_child_side = "Left" THEN 1 ELSE -1)
        Balanced(s2) ==
            [node |-> s2,
             change |-> IF s2.balance_factor = 0
                        THEN affected_child_change ELSE "Unchanged"]
        Changed(s1) ==
            IF s1.balance_factor = 0
            THEN [node |-> s1,
                  change |-> IF affected_child_change = "Increased"
                             THEN "Unchanged" ELSE "Decreased"]
            ELSE IF abs(s1.balance_factor) = 1
            THEN [node |-> s1,
                  change |-> IF affected_child_change = "Increased"
                             THEN "Increased" ELSE "Unchanged"]
            ELSE Balanced(balance(s1))
    IN  IF AVLIsPanic(self) THEN [node |-> AVLPanicNode, change |-> "Unchanged"]
        ELSE IF affected_child_change = "Unchanged"
        THEN [node |-> self, change |-> "Unchanged"]
        ELSE Changed([self EXCEPT !.balance_factor =
                                      self.balance_factor + delta])

\* avl.rs AVLNode::handle_child_change; the result is the node afterwards and
\* the HeightChange it returns
handle_child_change(self, affected_child_change, affected_child_side) ==
    LET delta == IF affected_child_change = "Increased"
                 THEN (IF affected_child_side = "Left" THEN -1 ELSE 1)
                 ELSE (IF affected_child_side = "Left" THEN 1 ELSE -1)
        Balanced(s2) ==
            [node |-> s2,
             change |-> IF affected_child_change = "Decreased"
                           /\ s2.balance_factor = 0
                        THEN "Decreased" ELSE "Unchanged"]
        Changed(s1) ==
            IF s1.balance_factor = 0
            THEN [node |-> s1,
                  change |-> IF affected_child_change = "Increased"
                             THEN "Unchanged" ELSE "Decreased"]
            ELSE IF abs(s1.balance_factor) = 1
            THEN [node |-> s1,
                  change |-> IF affected_child_change = "Increased"
                             THEN "Increased" ELSE "Unchanged"]
            ELSE Balanced(balance(s1))
    IN  IF AVLIsPanic(self) THEN [node |-> AVLPanicNode, change |-> "Unchanged"]
        ELSE IF affected_child_change = "Unchanged"
        THEN [node |-> self, change |-> "Unchanged"]
        ELSE Changed([self EXCEPT !.balance_factor =
                                      self.balance_factor + delta])

RECURSIVE avl_node_insert(_, _)
\* avl.rs AVLNode::insert; the result is the node afterwards and the
\* HeightChange it returns
avl_node_insert(self, value) ==
    IF value = self.value
    THEN [node |-> [self EXCEPT !.value = value], change |-> "Unchanged"]
    ELSE
        LET affected_child_side ==
                IF value < self.value THEN "Left" ELSE "Right"
            c == avl_child(self, affected_child_side)
            Inserted(r) ==
                handle_child_change(
                    AVLSetChild(self, affected_child_side, Some(r.node)),
                    r.change, affected_child_side)
        IN  IF c = None
            THEN handle_child_change(
                     AVLSetChild(self, affected_child_side, avl_new_node(value)),
                     "Increased", affected_child_side)
            ELSE Inserted(avl_node_insert(c[1], value))

\* avl.rs AVL::insert
avl_insert(root, value) ==
    IF root = None THEN avl_new_node(value)
    ELSE Some(avl_node_insert(root[1], value).node)

RECURSIVE avl_pop_smallest_node(_)
\* avl.rs AVLNode::pop_smallest_node; the result is (tree, popped, change)
avl_pop_smallest_node(node) ==
    LET Handled(p, h) ==
            [tree |-> Some(h.node), popped |-> p.popped, change |-> h.change]
        Popped(p) ==
            Handled(p, handle_child_change(AVLSetChild(node, "Left", p.tree),
                                           p.change, "Left"))
    IN  IF node.left_child = None
        THEN [tree |-> node.right_child,
              popped |-> [node EXCEPT !.right_child = None],
              change |-> "Decreased"]
        ELSE Popped(avl_pop_smallest_node(node.left_child[1]))

\* avl.rs AVLNode::remove, Equal arm with two children
avl_remove_two_children(self) ==
    LET Handled(replacement, h) ==
            [node |-> Some(h.node), change |-> h.change,
             removed |-> Some(replacement.value)]
        Swapped(p, swapped) ==
            Handled([p.popped EXCEPT !.value = self.value],
                    handle_child_change(AVLSetChild(swapped, "Right", p.tree),
                                        p.change, "Right"))
        Popped(p) == Swapped(p, [self EXCEPT !.value = p.popped.value])
    IN  Popped(avl_pop_smallest_node(self.right_child[1]))

RECURSIVE avl_node_remove(_, _)
\* avl.rs AVLNode::remove; the result is (tree, change, removed)
avl_node_remove(self, value) ==
    IF value = self.value THEN
        LET has_left_child == self.left_child # None
            has_right_child == self.right_child # None
        IN  IF has_right_child /\ has_left_child
            THEN avl_remove_two_children(self)
            ELSE IF has_right_child
            THEN [node |-> Some(avl_unwrap(self.right_child)),
                  change |-> "Decreased", removed |-> Some(self.value)]
            ELSE IF has_left_child
            THEN [node |-> Some(avl_unwrap(self.left_child)),
                  change |-> "Decreased", removed |-> Some(self.value)]
            ELSE [node |-> None, change |-> "Decreased",
                  removed |-> Some(self.value)]
    ELSE
        LET side == IF value > self.value THEN "Right" ELSE "Left"
            c == avl_child(self, side)
            Handled(r, h) ==
                [node |-> Some(h.node), change |-> h.change,
                 removed |-> r.removed]
            Relinked(r) ==
                Handled(r, handle_child_change(AVLSetChild(self, side, r.node),
                                               r.change, side))
        IN  IF c # None THEN Relinked(avl_node_remove(c[1], value))
            ELSE [node |-> Some(self), change |-> "Unchanged",
                  removed |-> None]

\* avl.rs AVL::remove; the result is the root afterwards and the value
\* returned
avl_remove(root, value) ==
    LET Root(r) == [node |-> r.node, removed |-> r.removed]
    IN  IF root = None THEN [node |-> None, removed |-> None]
        ELSE Root(avl_node_remove(root[1], value))

-----------------------------------------------------------------------------
(* The program: one tree, constructed empty, and the calls made on it.     *)
(*   kind      which tree was constructed (RedBlack::new or AVL::new)      *)
(*   rb        RedBlack.root                                               *)
(*   avl       AVL.root                                                    *)
(*   model     the map the calls so far describe: for each key the value   *)
(*             inserted last and not removed since, or None                *)
(*   last      the last call: its name, arguments and return value, and    *)
(*             what `model` held for its key when it was made              *)
(*   panicked  the last call panicked instead of returning (the thread is  *)
(*             gone and no further call is made)                           *)

VARIABLES kind, rb, avl, model, last, panicked

vars == <<kind, rb, avl, model, last, panicked>>

Call(op, key, value, result, before) ==
    [op |-> op, key |-> key, value |-> value, result |-> result,
     before |-> before]

Init ==
    /\ kind \in Kinds
    /\ rb = None
    /\ avl = None
    /\ model = [k \in Keys |-> None]
    /\ last = Call("new", 0, 0, None, None)
    /\ panicked = FALSE

\* RedBlack::insert(key, value)
RBInsert(key, value) ==
    /\ kind = "RedBlack" /\ ~panicked
    /\ \E root \in {rb_insert(rb, key, value)} :
           IF IsPanic(root[1])
           THEN /\ panicked' = TRUE
                /\ last' = Call("insert", key, value, None, model[key])
                /\ UNCHANGED <<rb, model>>
           ELSE /\ rb' = root
                /\ model' = [model EXCEPT ![key] = Some(value)]
                /\ last' = Call("insert", key, value, None, model[key])
                /\ UNCHANGED panicked
    /\ UNCHANGED <<kind, avl>>

\* RedBlack::remove(key)
RBRemove(key) ==
    /\ kind = "RedBlack" /\ ~panicked
    /\ \E r \in {rb_remove(rb, key)} :
           IF r.node # None /\ IsPanic(r.node[1])
           THEN /\ panicked' = TRUE
                /\ rb' = None
                /\ last' = Call("remove", key, 0, None, model[key])
                /\ UNCHANGED model
           ELSE /\ rb' = r.node
                /\ model' = [model EXCEPT ![key] = None]
                /\ last' = Call("remove", key, 0, r.removed, model[key])
                /\ UNCHANGED panicked
    /\ UNCHANGED <<kind, avl>>

\* RedBlack::find(key)
RBFind(key) ==
    /\ kind = "RedBlack" /\ ~panicked
    /\ last' = Call("find", key, 0, tree_find(rb, key), model[key])
    /\ UNCHANGED <<kind, rb, avl, model, panicked>>

\* RedBlack::min()
RBMin ==
    /\ kind = "RedBlack" /\ ~panicked
    /\ last' = Call("min", 0, 0, tree_min(rb), None)
    /\ UNCHANGED <<kind, rb, avl, model, panicked>>

\* RedBlack::max()
RBMax ==
    /\ kind = "RedBlack" /\ ~panicked
    /\ last' = Call("max", 0, 0, tree_max(rb), None)
    /\ UNCHANGED <<kind, rb, avl, model, panicked>>

\* RedBlack::next(key)
RBNext(key) ==
    /\ kind = "RedBlack" /\ ~panicked
    /\ last' = Call("next", key, 0, tree_next(rb, key), model[key])
    /\ UNCHANGED <<kind, rb, avl, model, panicked>>

\* AVL::insert(value)
AVLInsert(value) ==
    /\ kind = "AVL" /\ ~panicked
    /\ \E root \in {avl_insert(avl, value)} :
           IF AVLIsPanic(root[1])
           THEN /\ panicked' = TRUE
                /\ last' = Call("insert", value, 0, None, model[value])
                /\ UNCHANGED <<avl, model>>
           ELSE /\ avl' = root
                /\ model' = [model EXCEPT ![value] = Some(value)]
                /\ last' = Call("insert", value, 0, None, model[value])
                /\ UNCHANGED panicked
    /\ UNCHANGED <<kind, rb>>

\* AVL::remove(value)
AVLRemove(value) ==
    /\ kind = "AVL" /\ ~panicked
    /\ \E r \in {avl_remove(avl, value)} :
           IF r.node # None /\ AVLIsPanic(r.node[1])
           THEN /\ panicked' = TRUE
                /\ avl' = None
                /\ last' = Call("remove", value, 0, None, model[value])
                /\ UNCHANGED model
           ELSE /\ avl' = r.node
                /\ model' = [model EXCEPT ![value] = None]
                /\ last' = Call("remove", value, 0, r.removed, model[value])
                /\ UNCHANGED panicked
    /\ UNCHANGED <<kind, rb>>

\* AVL::find(value)
AVLFind(value) ==
    /\ kind = "AVL" /\ ~panicked
    /\ last' = Call("find", value, 0, avl_find(avl, value), model[value])
    /\ UNCHANGED <<kind, rb, avl, model, panicked>>

\* AVL::min()
AVLMin ==
    /\ kind = "AVL" /\ ~panicked
    /\ last' = Call("min", 0, 0, avl_min(avl), None)
    /\ UNCHANGED <<kind, rb, avl, model, panicked>>

\* AVL::max()
AVLMax ==
    /\ kind = "AVL" /\ ~panicked
    /\ last' = Call("max", 0, 0, avl_max(avl), None)
    /\ UNCHANGED <<kind, rb, avl, model, panicked>>

\* AVL::next(value)
AVLNext(value) ==
    /\ kind = "AVL" /\ ~panicked
    /\ last' = Call("next", value, 0, avl_next(avl, value), model[value])
    /\ UNCHANGED <<kind, rb, avl, model, panicked>>

Next ==
    \/ \E key \in Keys : \E value \in Values(key) : RBInsert(key, value)
    \/ \E key \in Keys : RBRemove(key)
    \/ \E key \in Keys : RBFind(key)
    \/ RBMin
    \/ RBMax
    \/ \E key \in Keys : RBNext(key)
    \/ \E value \in Keys : AVLInsert(value)
    \/ \E value \in Keys : AVLRemove(value)
    \/ \E value \in Keys : AVLFind(value)
    \/ AVLMin
    \/ AVLMax
    \/ \E value \in Keys : AVLNext(value)

Spec == Init /\ [][Next]_vars

\* The calls that change the tree.
NextMut ==
    \/ \E key \in Keys : \E value \in Values(key) : RBInsert(key, value)
    \/ \E key \in Keys : RBRemove(key)
    \/ \E value \in Keys : AVLInsert(value)
    \/ \E value \in Keys : AVLRemove(value)

SpecMut == Init /\ [][NextMut]_vars

\* The calls that change the tree, and find.
NextFind ==
    \/ NextMut
    \/ \E key \in Keys : RBFind(key)
    \/ \E value \in Keys : AVLFind(value)

SpecFind == Init /\ [][NextFind]_vars

\* The calls that change the tree, and min and max.
NextMinMax ==
    \/ NextMut
    \/ RBMin
    \/ RBMax
    \/ AVLMin
    \/ AVLMax

SpecMinMax == Init /\ [][NextMinMax]_vars

-----------------------------------------------------------------------------
(* What the tests check of a tree (rb.rs and avl.rs, mod tests), and what  *)
(* the calls so far say the tree must hold.                                *)

RECURSIVE check_tree_recursively(_)
\* rb.rs tests::check_tree_recursively: the black count and the size of the
\* subtree, and whether every assertion passed
check_tree_recursively(tree) ==
    LET leaf == [ok |-> TRUE, black |-> 1, size |-> 0]
        l == IF tree.left_child = None THEN leaf
             ELSE check_tree_recursively(tree.left_child[1])
        r == IF tree.right_child = None THEN leaf
             ELSE check_tree_recursively(tree.right_child[1])
    IN  [ok |-> /\ l.ok /\ r.ok
                /\ l.black = r.black
                /\ tree.metadata = "Red" =>
                       /\ ~is_red(tree.left_child)
                       /\ ~is_red(tree.right_child),
         black |-> IF tree.metadata = "Black" THEN l.black + 1 ELSE l.black,
         size |-> l.size + r.size + 1]

\* rb.rs tests::check_tree, without the size
check_tree(tree) ==
    tree.metadata = "Black" /\ check_tree_recursively(tree).ok

RECURSIVE check_balance_factors(_)
\* avl.rs tests::check_balance_factors: the height and the size of the subtree,
\* and whether every assertion passed
check_balance_factors(tree) ==
    LET leaf == [ok |-> TRUE, height |-> 0, size |-> 0]
        l == IF tree.left_child = None THEN leaf
             ELSE check_balance_factors(tree.left_child[1])
        r == IF tree.right_child = None THEN leaf
             ELSE check_balance_factors(tree.right_child[1])
    IN  [ok |-> /\ l.ok /\ r.ok
                /\ tree.balance_factor = r.height - l.height,
         height |-> (IF l.height > r.height THEN l.height ELSE r.height) + 1,
         size |-> l.size + r.size + 1]

RECURSIVE BalanceFactors(_)
\* the balance factors stored in an AVL tree
BalanceFactors(c) ==
    IF c = None THEN {}
    ELSE {c[1].balance_factor} \cup BalanceFactors(c[1].left_child)
                               \cup BalanceFactors(c[1].right_child)

RECURSIVE RBKeys(_)
\* the keys stored in a red-black tree
RBKeys(c) ==
    IF c = None THEN {}
    ELSE {c[1].key} \cup RBKeys(c[1].left_child) \cup RBKeys(c[1].right_child)

RECURSIVE AVLKeys(_)
\* the values stored in an AVL tree
AVLKeys(c) ==
    IF c = None THEN {}
    ELSE {c[1].value} \cup AVLKeys(c[1].left_child)
                      \cup AVLKeys(c[1].right_child)

RECURSIVE RBSize(_)
\* the number of nodes of a red-black tree
RBSize(c) ==
    IF c = None THEN 0
    ELSE 1 + RBSize(c[1].left_child) + RBSize(c[1].right_child)

RECURSIVE AVLSize(_)
\* the number of nodes of an AVL tree
AVLSize(c) ==
    IF c = None THEN 0
    ELSE 1 + AVLSize(c[1].left_child) + AVLSize(c[1].right_child)

RECURSIVE RBOrdered(_)
\* BST order at every node of a red-black tree
RBOrdered(c) ==
    \/ c = None
    \/ /\ \A k \in RBKeys(c[1].left_child) : k < c[1].key
       /\ \A k \in RBKeys(c[1].right_child) : k > c[1].key
       /\ RBOrdered(c[1].left_child)
       /\ RBOrdered(c[1].right_child)

RECURSIVE AVLOrdered(_)
\* BST order at every node of an AVL tree
AVLOrdered(c) ==
    \/ c = None
    \/ /\ \A k \in AVLKeys(c[1].left_child) : k < c[1].value
       /\ \A k \in AVLKeys(c[1].right_child) : k > c[1].value
       /\ AVLOrdered(c[1].left_child)
       /\ AVLOrdered(c[1].right_child)

\* the keys `model` holds
Present == {k \in Keys : model[k] # None}

\* what a call returns for the entry of key k in `model`: the red-black map
\* returns (key, value), the AVL set the value
Entry(k) ==
    IF kind = "RedBlack" THEN Some(<<k, model[k][1]>>) ELSE Some(model[k][1])

\* the smallest of a non-empty set of keys
Smallest(S) == CHOOSE k \in S : \A j \in S : k <= j

\* the largest of a non-empty set of keys
Largest(S) == CHOOSE k \in S : \A j \in S : k >= j

-----------------------------------------------------------------------------
(* Claims                                                                  *)

\* C1: after any sequence of inserts and removes, the red-black tree's root is
\* Black, no Red node has a Red child, and every path from the root to an
\* absent child holds the same number of Black nodes.
C1_RedBlackInvariant ==
    (kind = "RedBlack" /\ rb # None) => check_tree(rb[1])

\* C2: after any sequence of inserts and removes, every AVL node's balance
\* factor is height(right) - height(left) and is -1, 0 or 1.
C2_AVLInvariant ==
    (kind = "AVL" /\ avl # None) =>
        /\ check_balance_factors(avl[1]).ok
        /\ BalanceFactors(avl) \subseteq {-1, 0, 1}

\* an AVL tree of height 3 left by the removal of one of six values
C2_Witness ==
    /\ kind = "AVL" /\ ~panicked
    /\ last.op = "remove" /\ last.before # None
    /\ AVLSize(avl) = 5
    /\ check_balance_factors(avl[1]).height = 3

\* C3: after any sequence of inserts and removes, BST order holds at every
\* node of the red-black tree and of the AVL tree.
C3_BSTOrder == RBOrdered(rb) /\ AVLOrdered(avl)

\* a red-black tree of five keys left by the removal of a key that lay
\* between two of them
C3_Witness ==
    /\ kind = "RedBlack" /\ ~panicked
    /\ last.op = "remove" /\ last.before # None
    /\ RBSize(rb) = 5
    /\ \E j, k \in RBKeys(rb) : j < last.key /\ last.key < k

\* C4: find(k) returns the value inserted last for k when k was inserted and
\* not removed since, and None otherwise.
C4_FindIsMap == last.op = "find" => last.result = last.before

\* find returning the rewritten value of key Rewritten in a tree of at least
\* five keys
C4_Witness ==
    /\ kind = "RedBlack"
    /\ last.op = "find" /\ last.key = Rewritten
    /\ last.result = Some(0)
    /\ RBSize(rb) >= 5

\* C5: no call on the red-black tree panics.
C5_RBNoPanic == kind = "RedBlack" => ~panicked

\* the keys of `model` above key
Greater(key) == {k \in Present : k > key}

\* the entry with the smallest key above key, or None
Successor(key) ==
    IF Greater(key) = {} THEN None ELSE Entry(Smallest(Greater(key)))

\* C6: next(key) for a key in the tree returns the entry with the smallest
\* key above key, or None when key is the largest.
C6_NextOfPresent ==
    (last.op = "next" /\ last.before # None) =>
        last.result = Successor(last.key)

\* C7: next(key) for a key not in the tree returns the entry with the
\* smallest key above key, or None when no stored key is larger.
C7_NextOfAbsent ==
    (last.op = "next" /\ last.before = None) =>
        last.result = Successor(last.key)

\* C8: min() returns the entry with the smallest key, or None on an empty
\* tree.
C8_MinIsSmallest ==
    last.op = "min" =>
        last.result = IF Present = {} THEN None ELSE Entry(Smallest(Present))

\* C9: max() returns the entry with the largest key, or None on an empty
\* tree.
C9_MaxIsLargest ==
    last.op = "max" =>
        last.result = IF Present = {} THEN None ELSE Entry(Largest(Present))

\* max returning the largest of at least five keys, which is not at the root
C9_Witness ==
    /\ kind = "RedBlack"
    /\ last.op = "max"
    /\ RBSize(rb) >= 5
    /\ last.result = Some(<<Largest(Present), Largest(Present)>>)
    /\ rb[1].key # Largest(Present)

\* what the tree holds for key k, as find reports it
Stored(k) == IF kind = "RedBlack" THEN tree_find(rb, k) ELSE avl_find(avl, k)

\* the entry remove returns for a key that `model` held with value v
Removed(k, v) == IF kind = "RedBlack" THEN Some(<<k, v>>) ELSE Some(v)

\* C10: remove(k) of a key in the tree returns k with the value stored for
\* k; afterwards k is absent and every other entry is still stored.
C10_RemoveReturnsOwnEntry ==
    (last.op = "remove" /\ last.before # None) =>
        /\ ~panicked
        /\ last.result = Removed(last.key, last.before[1])
        /\ Stored(last.key) = None
        /\ \A k \in Keys : Stored(k) = model[k]

\* C10 for the removes that return
C10_WhenRemoveReturns ==
    (last.op = "remove" /\ last.before # None /\ ~panicked) =>
        /\ last.result = Removed(last.key, last.before[1])
        /\ Stored(last.key) = None
        /\ \A k \in Keys : Stored(k) = model[k]

\* C5 for the calls made on a tree that passes check_tree
C5_NoPanicOnValidTree ==
    [][(kind = "RedBlack" /\ (rb = None \/ check_tree(rb[1]))) => ~panicked']_vars

\* the number of nodes of the tree that was constructed
TreeSize == IF kind = "RedBlack" THEN RBSize(rb) ELSE AVLSize(avl)

\* C11: in both trees, inserting a new key adds exactly one node, inserting an
\* existing key adds none, removing a present key takes exactly one node away,
\* and removing an absent key takes none away and returns None.
C11_SizeLaw ==
    [][/\ (last'.op = "insert" /\ last'.before = None) =>
              ~panicked' /\ TreeSize' = TreeSize + 1
       /\ (last'.op = "insert" /\ last'.before # None) =>
              ~panicked' /\ TreeSize' = TreeSize
       /\ (last'.op = "remove" /\ last'.before # None) =>
              ~panicked' /\ TreeSize' = TreeSize - 1
       /\ (last'.op = "remove" /\ last'.before = None) =>
              ~panicked' /\ TreeSize' = TreeSize /\ last'.result = None]_vars

\* C11 for the calls that return
C11_WhenCallReturns ==
    [][~panicked' =>
          /\ (last'.op = "insert" /\ last'.before = None) =>
                 TreeSize' = TreeSize + 1
          /\ (last'.op = "insert" /\ last'.before # None) =>
                 TreeSize' = TreeSize
          /\ (last'.op = "remove" /\ last'.before # None) =>
                 TreeSize' = TreeSize - 1
          /\ (last'.op = "remove" /\ last'.before = None) =>
                 TreeSize' = TreeSize /\ last'.result = None]_vars

-----------------------------------------------------------------------------
(* The round trip: distinct keys are inserted in any order, then all of    *)
(* them are removed in any order, then every key is looked up.             *)

\* a key not yet in the tree is inserted, before any remove
RoundTripInsertRB(key, value) ==
    /\ last.op \in {"new", "insert"}
    /\ model[key] = None
    /\ RBInsert(key, value)

RoundTripInsertAVL(value) ==
    /\ last.op \in {"new", "insert"}
    /\ model[value] = None
    /\ AVLInsert(value)

\* a key still in the tree is removed
RoundTripRemoveRB(key) ==
    /\ model[key] # None
    /\ RBRemove(key)

RoundTripRemoveAVL(value) ==
    /\ model[value] # None
    /\ AVLRemove(value)

\* once every key is removed, a key is looked up
RoundTripFindRB(key) ==
    /\ last.op \in {"remove", "find"}
    /\ Present = {}
    /\ RBFind(key)

RoundTripFindAVL(value) ==
    /\ last.op \in {"remove", "find"}
    /\ Present = {}
    /\ AVLFind(value)

NextRoundTrip ==
    \/ \E key \in Keys : \E value \in Values(key) : RoundTripInsertRB(key, value)
    \/ \E value \in Keys : RoundTripInsertAVL(value)
    \/ \E key \in Keys : RoundTripRemoveRB(key)
    \/ \E value \in Keys : RoundTripRemoveAVL(value)
    \/ \E key \in Keys : RoundTripFindRB(key)
    \/ \E value \in Keys : RoundTripFindAVL(value)

SpecRoundTrip == Init /\ [][NextRoundTrip]_vars

\* C12: in both trees, after distinct keys are inserted, every remove returns
\* its key, the tree is empty (root absent) once all of them are removed, and
\* find then reports every key absent.
C12_RoundTrip ==
    /\ last.op = "remove" =>
           ~panicked /\ last.result = Removed(last.key, last.before[1])
    /\ (last.op \in {"remove", "find"} /\ Present = {}) =>
           rb = None /\ avl = None
    /\ last.op = "find" => last.result = None

\* C12 for the removes that return
C12_WhenRemoveReturns ==
    ~panicked =>
        /\ last.op = "remove" =>
               last.result = Removed(last.key, last.before[1])
        /\ (last.op \in {"remove", "find"} /\ Present = {}) =>
               rb = None /\ avl = None
        /\ last.op = "find" => last.result = None

RECURSIVE RBSkeleton(_)
\* a red-black tree without its values: the keys, the parent/child structure
\* and the colours
RBSkeleton(c) ==
    IF c = None THEN None
    ELSE Some([key |-> c[1].key,
               metadata |-> c[1].metadata,
               left_child |-> RBSkeleton(c[1].left_child),
               right_child |-> RBSkeleton(c[1].right_child)])

\* C13: in both trees, inserting a key that is already present changes only
\* the value stored for that key: the nodes, their parent/child structure and
\* their colours or balance factors stay as they were.
C13_UpdateIdempotence ==
    [][(last'.op = "insert" /\ last'.before # None) =>
          /\ ~panicked'
          /\ RBSkeleton(rb') = RBSkeleton(rb)
          /\ avl' = avl
          /\ kind = "RedBlack" =>
                 \A k \in Keys :
                     tree_find(rb', k) = IF k = last'.key
                                         THEN Some(last'.value)
                                         ELSE tree_find(rb, k)]_vars

\* the value of key Rewritten was replaced by another one, in a red-black tree
\* of at least five keys where that key is not at the root
C13_Witness ==
    /\ kind = "RedBlack" /\ ~panicked
    /\ last.op = "insert" /\ last.key = Rewritten
    /\ last.before # None /\ last.before[1] # last.value
    /\ RBSize(rb) >= 5
    /\ rb[1].key # Rewritten
    /\ tree_find(rb, Rewritten) = Some(last.value)

\* C14: no call on the AVL tree panics: balance is entered only with a balance
\* factor of -2 or 2, and every child and grandchild a rotation unwraps is
\* present.
C14_AVLNoPanic == kind = "AVL" => ~panicked

\* an insert that made the new value the root of the AVL tree, which only a
\* double rotation does
C14_Witness ==
    /\ kind = "AVL" /\ ~panicked
    /\ last.op = "insert" /\ last.before = None
    /\ AVLSize(avl) >= 3
    /\ avl[1].value = last.key

-----------------------------------------------------------------------------
(* The ascending workload of the unit tests: keys are inserted in          *)
(* ascending order, each with itself as value, then looked up, then        *)
(* removed in ascending order. The tests use 0..999; the trees only        *)
(* compare keys, and the keys here are 1..n for every n up to              *)
(* MaxAscending.                                                           *)

MaxAscending == 32

AscendingKeys == 1..MaxAscending

\* the keys of the workload that `model` holds
AscendingPresent == {k \in AscendingKeys : model[k] # None}

InitAscending ==
    /\ kind \in Kinds
    /\ rb = None
    /\ avl = None
    /\ model = [k \in AscendingKeys |-> None]
    /\ last = Call("new", 0, 0, None, None)
    /\ panicked = FALSE

\* `tree.insert(j.clone(), j.clone())` for the next j
AscendingInsertRB(key) ==
    /\ last.op \in {"new", "insert"}
    /\ AscendingPresent = 1..(key - 1)
    /\ RBInsert(key, key)

\* `tree.insert(j.clone())` for the next j
AscendingInsertAVL(value) ==
    /\ last.op \in {"new", "insert"}
    /\ AscendingPresent = 1..(value - 1)
    /\ AVLInsert(value)

\* `tree.find(j)` for an inserted j, once the inserts are over
AscendingFindRB(key) ==
    /\ last.op \in {"insert", "find"}
    /\ key \in AscendingPresent
    /\ RBFind(key)

AscendingFindAVL(value) ==
    /\ last.op \in {"insert", "find"}
    /\ value \in AscendingPresent
    /\ AVLFind(value)

\* `tree.remove(j)` for the smallest j still stored
AscendingRemoveRB(key) ==
    /\ last.op \in {"insert", "find", "remove"}
    /\ key \in AscendingPresent
    /\ \A k \in AscendingPresent : key <= k
    /\ RBRemove(key)

AscendingRemoveAVL(value) ==
    /\ last.op \in {"insert", "find", "remove"}
    /\ value \in AscendingPresent
    /\ \A k \in AscendingPresent : value <= k
    /\ AVLRemove(value)

NextAscending ==
    \/ \E key \in AscendingKeys : AscendingInsertRB(key)
    \/ \E value \in AscendingKeys : AscendingInsertAVL(value)
    \/ \E key \in AscendingKeys : AscendingFindRB(key)
    \/ \E value \in AscendingKeys : AscendingFindAVL(value)
    \/ \E key \in AscendingKeys : AscendingRemoveRB(key)
    \/ \E value \in AscendingKeys : AscendingRemoveAVL(value)

SpecAscending == InitAscending /\ [][NextAscending]_vars

\* C15: in the ascending workload, for both trees and every n, the balance
\* invariant and the expected node count hold after every insertion and
\* every removal, every inserted key is found, every remove returns its key,
\* and the tree is empty once all keys are removed.
C15_AscendingWorkload ==
    /\ ~panicked
    /\ TreeSize = Cardinality(AscendingPresent)
    /\ (kind = "RedBlack" /\ rb # None) => check_tree(rb[1])
    /\ (kind = "AVL" /\ avl # None) =>
           /\ check_balance_factors(avl[1]).ok
           /\ BalanceFactors(avl) \subseteq {-1, 0, 1}
    /\ AscendingPresent = {} => rb = None /\ avl = None
    /\ last.op = "find" => last.result = Some(last.key)
    /\ last.op = "remove" => last.result = Removed(last.key, last.key)

\* the red-black tree emptied by the removal of the largest key, after all
\* MaxAscending keys were inserted and the smaller ones removed
C15_Witness ==
    /\ kind = "RedBlack" /\ ~panicked
    /\ last.op = "remove" /\ last.key = MaxAscending
    /\ last.result = Some(<<MaxAscending, MaxAscending>>)
    /\ rb = None

-----------------------------------------------------------------------------
(* The scenarios: fixed insertion orders into an empty tree, A and B into  *)
(* the AVL tree and C into the red-black tree, with lookups in between.    *)

ScenarioA == <<1, 2, 3>>

ScenarioB == <<3, 1, 2>>

ScenarioC == <<5, 3, 8, 1, 4, 7, 9>>

ScenarioKeys == 1..9

\* the keys of the scenarios that `model` holds
ScenarioPresent == {k \in ScenarioKeys : model[k] # None}

\* the first n keys of a scenario
Prefix(scenario, n) == {scenario[i] : i \in 1..n}

\* key is the next one to insert in the scenario
IsNextOf(scenario, key) ==
    \E n \in 0..(Len(scenario) - 1) :
        /\ ScenarioPresent = Prefix(scenario, n)
        /\ key = scenario[n + 1]

InitScenario ==
    /\ kind \in Kinds
    /\ rb = None
    /\ avl = None
    /\ model = [k \in ScenarioKeys |-> None]
    /\ last = Call("new", 0, 0, None, None)
    /\ panicked = FALSE

ScenarioInsertAVL(value) ==
    /\ IsNextOf(ScenarioA, value) \/ IsNextOf(ScenarioB, value)
    /\ AVLInsert(value)

ScenarioInsertRB(key) ==
    /\ IsNextOf(ScenarioC, key)
    /\ RBInsert(key, key)

NextScenario ==
    \/ \E value \in ScenarioKeys : ScenarioInsertAVL(value)
    \/ \E key \in ScenarioKeys : ScenarioInsertRB(key)
    \/ \E value \in ScenarioKeys : AVLFind(value)
    \/ \E value \in ScenarioKeys : AVLNext(value)
    \/ \E key \in ScenarioKeys : RBFind(key)
    \/ \E key \in ScenarioKeys : RBNext(key)

SpecScenario == InitScenario /\ [][NextScenario]_vars

\* avl.rs AVLNode::balance: the rotation it calls
balance_rotation(self) ==
    IF self.balance_factor = -2 THEN
        IF self.left_child = None THEN "panic"
        ELSE IF self.left_child[1].balance_factor <= 0 THEN "rotate_right"
        ELSE "rotate_left_right"
    ELSE IF self.balance_factor = 2 THEN
        IF self.right_child = None THEN "panic"
        ELSE IF self.right_child[1].balance_factor >= 0 THEN "rotate_left"
        ELSE "rotate_right_left"
    ELSE "panic"

\* avl.rs AVLNode::handle_child_change: the rotations it fires
handle_child_change_rotations(self, affected_child_change, affected_child_side) ==
    LET delta == IF affected_child_change = "Increased"
                 THEN (IF affected_child_side = "Left" THEN -1 ELSE 1)
                 ELSE (IF affected_child_side = "Left" THEN 1 ELSE -1)
        Changed(s1) ==
            IF s1.balance_factor = 0 \/ abs(s1.balance_factor) = 1 THEN <<>>
            ELSE <<balance_rotation(s1)>>
    IN  IF affected_child_change = "Unchanged" THEN <<>>
        ELSE Changed([self EXCEPT !.balance_factor =
                                      self.balance_factor + delta])

RECURSIVE avl_node_insert_rotations(_, _)
\* avl.rs AVLNode::insert: the rotations it fires, in the order they fire
avl_node_insert_rotations(self, value) ==
    IF value = self.value THEN <<>>
    ELSE
        LET affected_child_side ==
                IF value < self.value THEN "Left" ELSE "Right"
            c == avl_child(self, affected_child_side)
            Inserted(r) ==
                handle_child_change_rotations(
                    AVLSetChild(self, affected_child_side, Some(r.node)),
                    r.change, affected_child_side)
        IN  IF c = None
            THEN handle_child_change_rotations(
                     AVLSetChild(self, affected_child_side, avl_new_node(value)),
                     "Increased", affected_child_side)
            ELSE avl_node_insert_rotations(c[1], value)
                     \o Inserted(avl_node_insert(c[1], value))

\* avl.rs AVL::insert: the rotations it fires
avl_insert_rotations(root, value) ==
    IF root = None THEN <<>> ELSE avl_node_insert_rotations(root[1], value)

\* the AVL tree of value 2 over the leaves 1 and 3, every balance factor 0
AVLTwoOverOneAndThree ==
    Some([value |-> 2, balance_factor |-> 0,
          left_child |-> avl_new_node(1),
          right_child |-> avl_new_node(3)])

\* C16: inserting 1, 2, 3 into an empty AVL tree fires exactly one rotation,
\* a single left rotation, and leaves root 2 over 1 and 3, every balance
\* factor 0.
C16_ScenarioA ==
    [][(kind = "AVL" /\ last'.op = "insert") =>
          /\ (ScenarioPresent = {} /\ last'.key = 1) =>
                 avl_insert_rotations(avl, 1) = <<>>
          /\ (ScenarioPresent = {1} /\ last'.key = 2) =>
                 avl_insert_rotations(avl, 2) = <<>>
          /\ (ScenarioPresent = {1, 2} /\ last'.key = 3) =>
                 /\ avl_insert_rotations(avl, 3) = <<"rotate_left">>
                 /\ avl' = AVLTwoOverOneAndThree]_vars

\* scenario A is over
C16_Witness ==
    /\ kind = "AVL" /\ ~panicked
    /\ last.op = "insert" /\ last.key = 3
    /\ ScenarioPresent = {1, 2, 3}
    /\ avl = AVLTwoOverOneAndThree

\* C17 as stated: inserting 3, 1, 2 into an empty AVL tree fires a right-left
\* double rotation, and leaves root 2 over 1 and 3, every balance factor 0.
C17_ScenarioB_RightLeft ==
    [][(kind = "AVL" /\ last'.op = "insert") =>
          /\ (ScenarioPresent = {} /\ last'.key = 3) =>
                 avl_insert_rotations(avl, 3) = <<>>
          /\ (ScenarioPresent = {3} /\ last'.key = 1) =>
                 avl_insert_rotations(avl, 1) = <<>>
          /\ (ScenarioPresent = {1, 3} /\ last'.key = 2) =>
                 /\ avl_insert_rotations(avl, 2) = <<"rotate_right_left">>
                 /\ avl' = AVLTwoOverOneAndThree]_vars

\* C17: inserting 3, 1, 2 into an empty AVL tree fires one double rotation,
\* the left-right one (rotate_left_right, on the left child's right child),
\* and leaves root 2 over 1 and 3, every balance factor 0.
C17_ScenarioB ==
    [][(kind = "AVL" /\ last'.op = "insert") =>
          /\ (ScenarioPresent = {} /\ last'.key = 3) =>
                 avl_insert_rotations(avl, 3) = <<>>
          /\ (ScenarioPresent = {3} /\ last'.key = 1) =>
                 avl_insert_rotations(avl, 1) = <<>>
          /\ (ScenarioPresent = {1, 3} /\ last'.key = 2) =>
                 /\ avl_insert_rotations(avl, 2) = <<"rotate_left_right">>
                 /\ avl' = AVLTwoOverOneAndThree]_vars

\* scenario B is over
C17_Witness ==
    /\ kind = "AVL" /\ ~panicked
    /\ last.op = "insert" /\ last.key = 2
    /\ ScenarioPresent = {1, 2, 3}
    /\ avl = AVLTwoOverOneAndThree

\* C18: after 5, 3, 8, 1, 4, 7, 9 are inserted into an empty red-black tree,
\* the root is Black, find(4) returns the value stored for 4 and next(4)
\* returns the entry of key 5.
C18_ScenarioC ==
    (kind = "RedBlack" /\ ScenarioPresent = Prefix(ScenarioC, Len(ScenarioC))) =>
        /\ ~panicked
        /\ rb # None /\ rb[1].metadata = "Black"
        /\ (last.op = "find" /\ last.key = 4) => last.result = model[4]
        /\ (last.op = "next" /\ last.key = 4) =>
               last.result = Some(<<5, model[5][1]>>)

\* next(4) was called once scenario C was over
C18_Witness ==
    /\ kind = "RedBlack" /\ ~panicked
    /\ ScenarioPresent = Prefix(ScenarioC, Len(ScenarioC))
    /\ last.op = "next" /\ last.key = 4
    /\ last.result = Some(<<5, 5>>)
    /\ tree_find(rb, 4) = Some(4)

-----------------------------------------------------------------------------
(* The red-black tree alone, over one key more than MaxKey: keys are       *)
(* inserted with themselves as value and removed, in any order.            *)

MaxRedBlackKey == 7

RedBlackKeys == 1..MaxRedBlackKey

InitRedBlack ==
    /\ kind = "RedBlack"
    /\ rb = None
    /\ avl = None
    /\ model = [k \in RedBlackKeys |-> None]
    /\ last = Call("new", 0, 0, None, None)
    /\ panicked = FALSE

NextRedBlack ==
    \/ \E key \in RedBlackKeys : RBInsert(key, key)
    \/ \E key \in RedBlackKeys : RBRemove(key)

SpecRedBlack == InitRedBlack /\ [][NextRedBlack]_vars

RECURSIVE RBDepth(_)
\* the number of nodes on the longest path from the root of a red-black tree
\* down to an absent child: what a descent visits at most
RBDepth(c) ==
    IF c = None THEN 0
    ELSE LET Longer(l, r) == 1 + (IF l > r THEN l ELSE r)
         IN  Longer(RBDepth(c[1].left_child), RBDepth(c[1].right_child))

\* depth <= 2 * log2(n + 1), as 2^depth <= (n + 1)^2
WithinDepthBound(c) == 2 ^ RBDepth(c) <= (RBSize(c) + 1) * (RBSize(c) + 1)

\* C19: after any sequence of inserts and removes, a red-black tree of n keys
\* has depth at most 2 * log2(n + 1).
C19_RBDepthBound == kind = "RedBlack" => WithinDepthBound(rb)

\* C19 for the trees that pass check_tree
C19_DepthBoundOfValidTree ==
    (kind = "RedBlack" /\ rb # None /\ check_tree(rb[1])) =>
        WithinDepthBound(rb)

-----------------------------------------------------------------------------
(* The fixups of a red-black insert.                                       *)

\* a Red node with a Red child
RealDoubleRed(node) ==
    /\ node.metadata = "Red"
    /\ is_red(node.left_child) \/ is_red(node.right_child)

RECURSIVE UnjustifiedFixup(_, _, _)
\* rb.rs Node::insert_recursively: some ancestor on the insertion path is
\* handed a rotation by its child, and so recolours or rotates in
\* handle_insert_rotation, while that child is not a Red node with a Red child
UnjustifiedFixup(self, key, value) ==
    IF key = self.key THEN FALSE
    ELSE
        LET side == IF key < self.key THEN "Left" ELSE "Right"
            Here(r) == r.rotation # None /\ ~RealDoubleRed(r.node)
        IN  IF child(self, side) = None THEN FALSE
            ELSE \/ UnjustifiedFixup(child(self, side)[1], key, value)
                 \/ Here(insert_recursively(child(self, side)[1], key, value))

\* C20: during a red-black insert, an ancestor on the insertion path
\* recolours or rotates only when its child on that path is Red and has a Red
\* child; after a red-uncle recolour the next ancestor does so only for a
\* double-red of its own.
C20_FixupOnlyOnDoubleRed ==
    [][(kind = "RedBlack" /\ rb # None /\ last'.op = "insert") =>
          ~UnjustifiedFixup(rb[1], last'.key, last'.value)]_vars

-----------------------------------------------------------------------------
(* The red-black tree alone, under the calls that change it.               *)

InitRBMut == Init /\ kind = "RedBlack"

NextRBMut ==
    \/ \E key \in Keys : \E value \in Values(key) : RBInsert(key, value)
    \/ \E key \in Keys : RBRemove(key)

SpecRBMut == InitRBMut /\ [][NextRBMut]_vars

\* C21: after every insert and every remove, the root of a non-empty
\* red-black tree is Black.
C21_RootIsBlack ==
    (kind = "RedBlack" /\ rb # None) => rb[1].metadata = "Black"

\* an insert has left a Black root over two Black children, which only the
\* repainting of a root that the fixup had painted Red gives a tree this small
C21_Witness ==
    /\ kind = "RedBlack" /\ ~panicked /\ last.op = "insert"
    /\ rb # None /\ RBSize(rb) = 4
    /\ rb[1].metadata = "Black"
    /\ rb[1].left_child # None /\ rb[1].left_child[1].metadata = "Black"
    /\ rb[1].right_child # None /\ rb[1].right_child[1].metadata = "Black"

-----------------------------------------------------------------------------
(* The AVL tree alone, over two values more than MaxKey, under the calls   *)
(* that change it, and the rebalancing of one insert.                      *)

MaxAVLValue == 8

AVLValues == 1..MaxAVLValue

InitAVLMut ==
    /\ kind = "AVL"
    /\ rb = None
    /\ avl = None
    /\ model = [k \in AVLValues |-> None]
    /\ last = Call("new", 0, 0, None, None)
    /\ panicked = FALSE

NextAVLMut ==
    \/ \E value \in AVLValues : AVLInsert(value)
    \/ \E value \in AVLValues : AVLRemove(value)

SpecAVLMut == InitAVLMut /\ [][NextAVLMut]_vars

RECURSIVE AbsorbedAtRotation(_, _)
\* avl.rs AVLNode::insert, for self and every node below it on the insertion
\* path: a node that rotates returns Unchanged, and a node with a rotation
\* below it is handed Unchanged, keeps its balance factor and does not rotate
AbsorbedAtRotation(self, value) ==
    IF value = self.value THEN TRUE
    ELSE
        LET affected_child_side ==
                IF value < self.value THEN "Left" ELSE "Right"
            c == avl_child(self, affected_child_side)
            Absorbed(rotations, h) ==
                rotations # <<>> => h.change = "Unchanged"
            Here(s1, change) ==
                Absorbed(
                    handle_child_change_rotations(s1, change,
                                                  affected_child_side),
                    handle_child_change(s1, change, affected_child_side))
            Untouched(s1, change) ==
                /\ change = "Unchanged"
                /\ handle_child_change_rotations(
                       s1, change, affected_child_side) = <<>>
                /\ handle_child_change(s1, change, affected_child_side)
                       .node.balance_factor = self.balance_factor
            Inserted(r, below) ==
                /\ Here(AVLSetChild(self, affected_child_side, Some(r.node)),
                        r.change)
                /\ below # <<>> =>
                       Untouched(AVLSetChild(self, affected_child_side,
                                             Some(r.node)), r.change)
        IN  IF c = None
            THEN Here(AVLSetChild(self, affected_child_side,
                                  avl_new_node(value)), "Increased")
            ELSE /\ AbsorbedAtRotation(c[1], value)
                 /\ Inserted(avl_node_insert(c[1], value),
                             avl_node_insert_rotations(c[1], value))

\* C22: an AVL insert fires at most one rotation, single or double; the node
\* that rotates returns Unchanged, and no ancestor above it changes its
\* balance factor or rotates during that insert.
C22_OneRebalancingPerInsert ==
    [][(kind = "AVL" /\ avl # None /\ last'.op = "insert") =>
          /\ ~panicked'
          /\ Len(avl_insert_rotations(avl, last'.key)) <= 1
          /\ AbsorbedAtRotation(avl[1], last'.key)]_vars

RECURSIVE AVLNodeOf(_, _)
\* the node of an AVL tree that holds a value (the tree holds it)
AVLNodeOf(c, value) ==
    IF c[1].value = value THEN c[1]
    ELSE IF value < c[1].value THEN AVLNodeOf(c[1].left_child, value)
    ELSE AVLNodeOf(c[1].right_child, value)

\* the value just inserted is at a node below the root that has both
\* children: a new node is a leaf, so a double rotation below the root has
\* lifted it, and the insert went on through the root above it
C22_Witness ==
    /\ kind = "AVL" /\ ~panicked
    /\ last.op = "insert" /\ last.before = None
    /\ avl # None /\ avl[1].value # last.key
    /\ AVLNodeOf(avl, last.key).left_child # None
    /\ AVLNodeOf(avl, last.key).right_child # None

-----------------------------------------------------------------------------
(* Red-black remove on every tree that satisfies BST order and the         *)
(* red-black invariant, built by insert or not: the trees of up to         *)
(* MaxValidSize nodes, which hold the keys 1..n with themselves as value.  *)

MaxValidSize == 13

ValidKeys == 1..MaxValidSize

RECURSIVE ShiftKeys(_, _)
\* the tree with every key and value raised by d
ShiftKeys(c, d) ==
    IF c = None THEN None
    ELSE Some([key |-> c[1].key + d, value |-> c[1].value + d,
               left_child |-> ShiftKeys(c[1].left_child, d),
               right_child |-> ShiftKeys(c[1].right_child, d),
               metadata |-> c[1].metadata])

\* lib.rs Node: the node of a key over two subtrees
NodeOver(key, color, left, right) ==
    Some([key |-> key, value |-> key, left_child |-> left,
          right_child |-> right, metadata |-> color])

\* The subtrees of n nodes with keys 1..n, without a Red node under a Red
\* node, whose paths all hold b Black nodes, by the colour of their root;
\* smaller[m + 1][c + 1] is the same for every size m < n and count c.
SubtreesOf(smaller, n, b) ==
    [Black |->
        IF n = 0 THEN (IF b = 0 THEN {None} ELSE {})
        ELSE IF b = 0 THEN {}
        ELSE UNION {{NodeOver(i + 1, "Black", l, ShiftKeys(r, i + 1)) :
                        l \in smaller[i + 1][b].Black
                                  \cup smaller[i + 1][b].Red,
                        r \in smaller[n - i][b].Black
                                  \cup smaller[n - i][b].Red} :
                    i \in 0..(n - 1)},
     Red |->
        IF n = 0 THEN {}
        ELSE UNION {{NodeOver(i + 1, "Red", l, ShiftKeys(r, i + 1)) :
                        l \in smaller[i + 1][b + 1].Black,
                        r \in smaller[n - i][b + 1].Black} :
                    i \in 0..(n - 1)}]

RECURSIVE SubtreesOfSize(_, _, _)
\* SubtreesOf for every count of Black nodes from b to MaxValidSize
SubtreesOfSize(smaller, n, b) ==
    IF b > MaxValidSize THEN <<>>
    ELSE <<SubtreesOf(smaller, n, b)>> \o SubtreesOfSize(smaller, n, b + 1)

RECURSIVE SubtreesUpTo(_, _)
\* SubtreesOfSize for every size from n to MaxValidSize, added to `smaller`
SubtreesUpTo(smaller, n) ==
    IF n > MaxValidSize THEN smaller
    ELSE SubtreesUpTo(Append(smaller, SubtreesOfSize(smaller, n, 0)), n + 1)

\* every red-black tree that satisfies BST order and the red-black invariant
\* and has one of the given numbers of nodes: the empty tree and the subtrees
\* with a Black root
ValidTrees(sizes) ==
    LET Roots(subtrees) ==
            UNION {subtrees[n + 1][b].Black : n \in sizes,
                                              b \in 1..(MaxValidSize + 1)}
    IN  Roots(SubtreesUpTo(<<>>, 0))

InitValid ==
    /\ kind = "RedBlack"
    /\ rb \in ValidTrees(0..MaxValidSize)
    /\ avl = None
    /\ model = [k \in ValidKeys |-> IF k <= RBSize(rb) THEN Some(k) ELSE None]
    /\ last = Call("new", 0, 0, None, None)
    /\ panicked = FALSE

\* RedBlack::remove(key) on the tree as it was given
ValidRemove(key) == last.op = "new" /\ RBRemove(key)

NextValid == \E key \in ValidKeys : ValidRemove(key)

SpecValid == InitValid /\ [][NextValid]_vars

\* rb.rs Node::check_imbalance_after_delete: self, the sibling of the changed
\* child and both children of that sibling are Black
AllBlackAround(self, changed_child_side) ==
    LET Around(sibling) ==
            /\ sibling # None /\ sibling[1].metadata = "Black"
            /\ is_black(sibling[1].left_child)
            /\ is_black(sibling[1].right_child)
    IN  self.metadata = "Black" /\ Around(another_child(self, changed_child_side))

\* the `if check_needed { check_needed = self.check_imbalance_after_delete(side) }`
\* that follows every recursive removal: check_needed stays true although not
\* all of self, the sibling and its children are Black
PassedUpElsewhere(self, check_needed, side) ==
    /\ check_needed
    /\ check_imbalance_after_delete(self, side).check
    /\ ~AllBlackAround(self, side)

RECURSIVE PopPassesUpElsewhere(_)
\* rb.rs Node::pop_smallest_node: PassedUpElsewhere at node or below it
PopPassesUpElsewhere(node) ==
    LET Here(p) ==
            PassedUpElsewhere(SetChild(node, "Left", p.tree), p.check, "Left")
    IN  IF node.left_child = None THEN FALSE
        ELSE \/ PopPassesUpElsewhere(node.left_child[1])
             \/ Here(pop_smallest_node(node.left_child[1]))

RECURSIVE RemovePassesUpElsewhere(_, _)
\* rb.rs Node::remove_recursively: PassedUpElsewhere at self or below it
RemovePassesUpElsewhere(self, key) ==
    IF key = self.key THEN
        LET Here(p) ==
                PassedUpElsewhere(
                    SetChild([self EXCEPT !.key = p.popped.key,
                                          !.value = p.popped.value],
                             "Right", p.tree),
                    p.check, "Right")
        IN  IF self.left_child = None \/ self.right_child = None THEN FALSE
            ELSE \/ PopPassesUpElsewhere(self.right_child[1])
                 \/ Here(pop_smallest_node(self.right_child[1]))
    ELSE
        LET side == IF key > self.key THEN "Right" ELSE "Left"
            Here(r) ==
                PassedUpElsewhere(SetChild(self, side, r.node), r.check, side)
        IN  IF child(self, side) = None THEN FALSE
            ELSE \/ RemovePassesUpElsewhere(child(self, side)[1], key)
                 \/ Here(remove_recursively(child(self, side)[1], key))

\* C23: on every red-black tree that satisfies BST order and the red-black
\* invariant, built by insert or not, remove(k) returns for every key k, and
\* leaves a tree that again satisfies BST order and the red-black invariant;
\* the black-deficiency is passed up to the parent only where the node, the
\* sibling and both nephews are Black.
C23_RemoveOnValidTree ==
    [][(/\ kind = "RedBlack" /\ last'.op = "remove"
        /\ rb # None /\ check_tree(rb[1]) /\ RBOrdered(rb)) =>
          /\ ~panicked'
          /\ rb' = None \/ check_tree(rb'[1])
          /\ RBOrdered(rb')
          /\ RBKeys(rb') = RBKeys(rb) \ {last'.key}
          /\ ~RemovePassesUpElsewhere(rb[1], last'.key)]_vars

\* remove has returned the entry of the smallest key of a tree of at least
\* seven nodes and left a tree with a Red node under its root: the subtree of
\* the removed key has lost a Black node, and the other one made up for it
C23_Witness ==
    /\ kind = "RedBlack" /\ ~panicked
    /\ last.op = "remove" /\ last.key = 1
    /\ last.result = Some(<<1, 1>>)
    /\ RBSize(rb) >= 6
    /\ check_tree(rb[1]) /\ RBOrdered(rb)
    /\ is_red(rb[1].right_child)
    /\ rb[1].left_child # None
    /\ rb[1].left_child[1].left_child = None
    /\ is_red(rb[1].left_child[1].right_child)

-----------------------------------------------------------------------------
(* The only child of a red-black node.                                     *)

RECURSIVE OnlyChildrenAreRed(_)
\* every node of the tree with exactly one child has a Red child
OnlyChildrenAreRed(c) ==
    \/ c = None
    \/ /\ (c[1].left_child = None /\ c[1].right_child # None) =>
              c[1].right_child[1].metadata = "Red"
       /\ (c[1].right_child = None /\ c[1].left_child # None) =>
              c[1].left_child[1].metadata = "Red"
       /\ OnlyChildrenAreRed(c[1].left_child)
       /\ OnlyChildrenAreRed(c[1].right_child)

\* C24: in every reachable state of the red-black tree, a node with exactly
\* one child has a Red child.
C24_OnlyChildIsRed == kind = "RedBlack" => OnlyChildrenAreRed(rb)

\* C24 for the trees that pass check_tree
C24_OnlyChildOfValidTree ==
    (kind = "RedBlack" /\ rb # None /\ check_tree(rb[1])) =>
        OnlyChildrenAreRed(rb)

=============================================================================
